---- MODULE Spec2Model ----
(***************************************************************************)
(* Model of the tail-latency benchmark (src/src/main.rs).                  *)
(*                                                                         *)
(* One process: the driver (main) connects, measures the RTT, registers    *)
(* num_replicas queue groups of num_responders subscriptions each, then    *)
(* issues num_requests blocking requests one after another and records     *)
(* the compensated elapsed time of each into HISTOGRAM.  Every             *)
(* subscription has a handler thread that takes the messages of its        *)
(* subscription in arrival order, sleeps for a sampled delay and responds. *)
(*                                                                         *)
(* Time is in milliseconds.  Every message in flight and every sleeping    *)
(* handler carries the time it still needs; Tick lets the time pass up to  *)
(* the next moment at which something is due.  Only transits and sleeps    *)
(* take time: the steps of main between two blocking calls take none.      *)
(***************************************************************************)
EXTENDS Integers, Sequences, FiniteSets, TLC

\* ---------------------------------------------------------------- bounds
\* The runs explored are those of all argument values with
\* num_replicas * num_responders * num_requests <= MaxLoad.
MaxLoad == 4
\* The number of replies whose emission fails in one run.
MaxFailures == 1
\* The measured RTTs and elapsed times (ms) the compensation is tried on.
MaxRtt == 10
MaxElapsed == 30

\* ------------------------------------------------------ program constants
\* const DELAYS: [(u64, u64); 5]: (delay in ms, weight)
DELAYS == << <<5, 65>>, <<10, 25>>, <<15, 4>>, <<50, 3>>, <<100, 3>> >>

\* The percentiles the summary asks for: min, 50, 75, 90, 95, 99, max.
Percentiles == <<0, 50, 75, 90, 95, 99, 100>>

\* ------------------------------------------------------------ environment
\* The values nc.rtt() can measure: the time of one pass client -> server ->
\* client.  Every message published by the client takes one such pass to reach
\* a subscription of the same connection.
RTTs == {0, 10}

VARIABLES
    num_replicas,   \* args.num_replicas
    num_responders, \* args.num_responders
    num_requests,   \* args.num_requests
    pc,             \* where main is
    rtt,            \* let rtt = nc.rtt()?
    dist,           \* lazy_static DIST: "unbuilt" | "built"
    subs,           \* the registered queue subscriptions <<group, member>>
    reqs,           \* copies of requests on their way to a subscription
    subq,           \* per subscription: the delivered requests not yet handled
    resp,           \* per subscription: what its handler thread is doing
    replies,        \* replies on their way to the request's inbox
    issued,         \* number of nc.request calls made so far
    elapsed,        \* start.elapsed() of the request being awaited
    hist,           \* the values given to HISTOGRAM.measure, in order
    queries,        \* the percentiles asked of HISTOGRAM so far
    data,           \* the summary: the answers to the queries, as u64
    received,       \* received[k][g]: members of group g whose handler took request k
    replied,        \* replied[k][g]: members of group g that emitted a reply to k
    sampled,        \* sampled[k][g]: the delays drawn for request k in group g
    failures        \* number of handler calls that have returned an error

vars == <<num_replicas, num_responders, num_requests, pc, rtt, dist,
          subs, reqs, subq, resp, replies, issued, elapsed, hist, queries,
          data, received, replied, sampled, failures>>

driverVars == <<pc, rtt, issued, elapsed, hist, queries, data>>
argVars == <<num_replicas, num_responders, num_requests>>

\* ---------------------------------------------------------------- helpers
AllGroups == 0 .. (MaxLoad - 1)
AllMembers == 1 .. MaxLoad
AllSubs == {s \in AllGroups \X AllMembers : (s[1] + 1) * s[2] <= MaxLoad}
AllReqs == 1 .. MaxLoad

Groups == 0 .. (num_replicas - 1)
Members == 1 .. num_responders

Idle == [st |-> "idle", k |-> 0, timer |-> 0]

Min(S) == CHOOSE x \in S : \A y \in S : x <= y

\* The transit of one direction only.
tx_time_once == rtt

\* let tx_time: Duration = 2 * rtt
tx_time == 2 * rtt

\* The comparison made inclusive: an elapsed time of exactly 2 * rtt gives 0.
calc_elapsed_ge(e) == IF e >= tx_time THEN e - tx_time ELSE e

\* The closure calc_elapsed, in ms.
calc_elapsed(e) == IF e > tx_time THEN e - tx_time ELSE e

\* DIST.sample: an index of the table whose weight is not zero.
SampleIndexes == {i \in 1 .. Len(DELAYS) : DELAYS[i][2] > 0}

\* The other field of the entry: DELAYS[..].1, its weight.
delay_is_weight(i) == DELAYS[i][2]

\* DELAYS[DIST.sample(..)].0: the delay of the entry drawn, in ms.
delay(i) == DELAYS[i][1]

\* The time a message published now takes to reach its subscription.
Transit == rtt

\* Plain subscriptions instead of queue subscriptions: every member gets a copy.
RouteAll(g, m) == {<<g, x>> : x \in Members}

\* One queue group name for all subscriptions: only one group gets a copy.
RouteOneGroup(g, m) == IF g = 0 THEN {<<g, m>>} ELSE {}

\* Queue-group delivery: of the members of group g, the one the server picked.
Route(g, m) == {<<g, m>>}

\* -------------------------------------------------------------- HISTOGRAM
\* HISTOGRAM is a historian::Histo: measure(v) counts v in the bucket
\* compress(v) = (100.0 * ln(1.0 + |v|) + 0.5) as u16, and percentile(p) gives
\* back decompress(idx) = exp(idx / 100.0) - 1.0 of a bucket idx.  The values
\* measured are whole milliseconds, and main uses a percentile only through
\* "as u64", so both functions are tabulated: COMPRESS[v + 1] is compress(v)
\* for v = 0, 1, .. and DECOMPRESS[idx + 1] is decompress(idx) as u64.
COMPRESS ==
    << 0, 69, 110, 139, 161, 179, 195, 208, 220, 230, 240, 248, 256, 264, 271, 277,
       283, 289, 294, 300, 304, 309, 314, 318, 322, 326, 330, 333, 337, 340, 343, 347,
       350, 353, 356, 358, 361, 364, 366, 369, 371, 374, 376, 378, 381, 383, 385, 387,
       389, 391, 393, 395, 397, 399, 401, 403, 404, 406, 408, 409, 411, 413, 414, 416,
       417, 419, 420, 422, 423, 425, 426, 428, 429, 430, 432, 433, 434, 436, 437, 438,
       439, 441, 442, 443, 444, 445, 447, 448, 449, 450, 451, 452, 453, 454, 455, 456,
       457, 458, 460, 461, 462, 462, 463, 464, 465, 466, 467, 468, 469, 470, 471, 472,
       473, 474, 474, 475, 476, 477, 478, 479, 480, 480, 481, 482, 483, 484, 484, 485,
       486, 487, 488, 488, 489, 490, 491, 491, 492, 493, 493, 494, 495, 496, 496, 497,
       498, 498, 499, 500, 500, 501, 502, 502, 503, 504, 504, 505, 506, 506, 507, 508,
       508, 509, 509, 510, 511, 511, 512, 512, 513, 514, 514, 515, 515, 516, 516, 517,
       518, 518, 519, 519, 520, 520, 521, 521, 522, 523, 523, 524, 524, 525, 525, 526,
       526, 527, 527, 528, 528, 529, 529, 530, 530, 531, 531, 532, 532, 533, 533, 534,
       534, 535, 535, 536, 536, 537, 537, 538, 538, 538, 539, 539, 540, 540, 541, 541,
       542, 542, 542, 543, 543, 544, 544, 545, 545, 546, 546, 546, 547, 547, 548, 548,
       548, 549, 549, 550, 550, 551, 551, 551, 552, 552, 553, 553, 553, 554, 554, 555 >>

DECOMPRESS ==
    << 0, 0, 0, 0, 0, 0, 0, 0, 0, 0, 0, 0, 0, 0, 0, 0,
       0, 0, 0, 0, 0, 0, 0, 0, 0, 0, 0, 0, 0, 0, 0, 0,
       0, 0, 0, 0, 0, 0, 0, 0, 0, 0, 0, 0, 0, 0, 0, 0,
       0, 0, 0, 0, 0, 0, 0, 0, 0, 0, 0, 0, 0, 0, 0, 0,
       0, 0, 0, 0, 0, 0, 1, 1, 1, 1, 1, 1, 1, 1, 1, 1,
       1, 1, 1, 1, 1, 1, 1, 1, 1, 1, 1, 1, 1, 1, 1, 1,
       1, 1, 1, 1, 1, 1, 1, 1, 1, 1, 1, 1, 1, 1, 2, 2,
       2, 2, 2, 2, 2, 2, 2, 2, 2, 2, 2, 2, 2, 2, 2, 2,
       2, 2, 2, 2, 2, 2, 2, 2, 2, 2, 2, 3, 3, 3, 3, 3,
       3, 3, 3, 3, 3, 3, 3, 3, 3, 3, 3, 3, 3, 3, 3, 3,
       3, 4, 4, 4, 4, 4, 4, 4, 4, 4, 4, 4, 4, 4, 4, 4,
       4, 4, 4, 4, 5, 5, 5, 5, 5, 5, 5, 5, 5, 5, 5, 5,
       5, 5, 5, 6, 6, 6, 6, 6, 6, 6, 6, 6, 6, 6, 6, 6,
       7, 7, 7, 7, 7, 7, 7, 7, 7, 7, 7, 7, 8, 8, 8, 8,
       8, 8, 8, 8, 8, 8, 8, 9, 9, 9, 9, 9, 9, 9, 9, 9,
       10, 10, 10, 10, 10, 10, 10, 10, 10, 11, 11, 11, 11, 11, 11, 11,
       11, 12, 12, 12, 12, 12, 12, 12, 13, 13, 13, 13, 13, 13, 13, 14,
       14, 14, 14, 14, 14, 14, 15, 15, 15, 15, 15, 15, 16, 16, 16, 16,
       16, 16, 17, 17, 17, 17, 17, 18, 18, 18, 18, 18, 19, 19, 19, 19,
       19, 20, 20, 20, 20, 20, 21, 21, 21, 21, 22, 22, 22, 22, 23, 23,
       23, 23, 24, 24, 24, 24, 25, 25, 25, 25, 26, 26, 26, 26, 27, 27,
       27, 28, 28, 28, 28, 29, 29, 29, 30, 30, 30, 31, 31, 31, 32, 32,
       32, 33, 33, 33, 34, 34, 34, 35, 35, 35, 36, 36, 37, 37, 37, 38,
       38, 39, 39, 39, 40, 40, 41, 41, 41, 42, 42, 43, 43, 44, 44, 45,
       45, 45, 46, 46, 47, 47, 48, 48, 49, 49, 50, 50, 51, 51, 52, 53,
       53, 54, 54, 55, 55, 56, 56, 57, 58, 58, 59, 59, 60, 61, 61, 62,
       63, 63, 64, 65, 65, 66, 67, 67, 68, 69, 69, 70, 71, 71, 72, 73,
       74, 74, 75, 76, 77, 78, 78, 79, 80, 81, 82, 82, 83, 84, 85, 86,
       87, 88, 89, 89, 90, 91, 92, 93, 94, 95, 96, 97, 98, 99, 100, 101,
       102, 103, 104, 105, 106, 107, 108, 110, 111, 112, 113, 114, 115, 116, 118, 119,
       120, 121, 122, 124, 125, 126, 128, 129, 130, 131, 133, 134, 136, 137, 138, 140,
       141, 143, 144, 145, 147, 148, 150, 151, 153, 155, 156, 158, 159, 161, 163, 164,
       166, 168, 169, 171, 173, 174, 176, 178, 180, 182, 183, 185, 187, 189, 191, 193,
       195, 197, 199, 201, 203, 205, 207, 209, 211, 213, 216, 218, 220, 222, 224, 227,
       229, 231, 234, 236, 238, 241, 243, 246, 248, 251, 253, 256 >>

compress(v) == COMPRESS[v + 1]

decompress(idx) == DECOMPRESS[idx + 1]

\* Histo::percentile(p) as u64 of the histogram holding the values of h:
\* NaN (0 as u64) when nothing was measured; else the first bucket, in
\* ascending order, at which the running count reaches count * p / 100 (1 when
\* that target is 0).
percentile(h, p) ==
    LET count == Len(h)
        target100 == IF count * p = 0 THEN 100 ELSE count * p
        UpTo(idx) == Cardinality({i \in 1 .. count : compress(h[i]) <= idx})
        Reached == {idx \in {compress(h[i]) : i \in 1 .. count} :
                       100 * UpTo(idx) >= target100}
    IN  IF count = 0 THEN 0 ELSE decompress(Min(Reached))

\* ------------------------------------------------------------------ Init
Init ==
    /\ num_replicas \in 1 .. MaxLoad
    /\ num_responders \in 1 .. MaxLoad
    /\ num_requests \in 1 .. MaxLoad
    /\ num_replicas * num_responders * num_requests <= MaxLoad
    /\ pc = "connect"
    /\ rtt = 0
    /\ dist = "unbuilt"
    /\ subs = {}
    /\ reqs = {}
    /\ subq = [s \in AllSubs |-> <<>>]
    /\ resp = [s \in AllSubs |-> Idle]
    /\ replies = {}
    /\ issued = 0
    /\ elapsed = 0
    /\ hist = <<>>
    /\ queries = <<>>
    /\ data = <<>>
    /\ received = [k \in AllReqs |-> [g \in AllGroups |-> {}]]
    /\ replied = [k \in AllReqs |-> [g \in AllGroups |-> {}]]
    /\ sampled = [k \in AllReqs |-> [g \in AllGroups |-> {}]]
    /\ failures = 0

\* ------------------------------------------------------- driver: start-up
respVars == <<dist, subs, reqs, subq, resp, replies, received, replied, sampled, failures>>

\* nats::connect(&args.server) succeeds.
Connect ==
    /\ pc = "connect"
    /\ pc' = "rtt"
    /\ UNCHANGED <<rtt, issued, elapsed, hist, queries, data>>
    /\ UNCHANGED argVars /\ UNCHANGED respVars

\* nats::connect(&args.server) fails: the unwrap_or_else closure runs.
ConnectFail ==
    /\ pc = "connect"
    /\ pc' = "fallback"
    /\ UNCHANGED <<rtt, issued, elapsed, hist, queries, data>>
    /\ UNCHANGED argVars /\ UNCHANGED respVars

\* nats::connect("demo.nats.io") succeeds.
Fallback ==
    /\ pc = "fallback"
    /\ pc' = "rtt"
    /\ UNCHANGED <<rtt, issued, elapsed, hist, queries, data>>
    /\ UNCHANGED argVars /\ UNCHANGED respVars

\* A connect loop: after the second failure the first address is tried again.
FallbackFailRetries ==
    /\ pc = "fallback"
    /\ pc' = "connect"
    /\ UNCHANGED <<rtt, issued, elapsed, hist, queries, data>>
    /\ UNCHANGED argVars /\ UNCHANGED respVars

\* nats::connect("demo.nats.io") fails: unwrap panics.
FallbackFail ==
    /\ pc = "fallback"
    /\ pc' = "panicked"
    /\ UNCHANGED <<rtt, issued, elapsed, hist, queries, data>>
    /\ UNCHANGED argVars /\ UNCHANGED respVars

\* let rtt = nc.rtt()?;
MeasureRtt ==
    /\ pc = "rtt"
    /\ \E t \in RTTs : rtt' = t
    /\ pc' = "subscribe"
    /\ UNCHANGED <<issued, elapsed, hist, queries, data>>
    /\ UNCHANGED argVars /\ UNCHANGED respVars

RttFail ==
    /\ pc = "rtt"
    /\ pc' = "aborted"
    /\ UNCHANGED <<rtt, issued, elapsed, hist, queries, data>>
    /\ UNCHANGED argVars /\ UNCHANGED respVars

\* DIST built by the registration loop instead of by its first use.
SubscribeBuilds ==
    /\ pc = "subscribe"
    /\ subs' = Groups \X Members
    /\ dist' = "built"
    /\ pc' = "loop"
    /\ UNCHANGED <<rtt, issued, elapsed, hist, queries, data>>
    /\ UNCHANGED argVars
    /\ UNCHANGED <<reqs, subq, resp, replies, received, replied, sampled, failures>>

\* The registration loop: one queue subscription with a handler per member
\* of every group qg:i.
Subscribe ==
    /\ pc = "subscribe"
    /\ subs' = Groups \X Members
    /\ pc' = "loop"
    /\ UNCHANGED <<rtt, issued, elapsed, hist, queries, data>>
    /\ UNCHANGED argVars
    /\ UNCHANGED <<dist, reqs, subq, resp, replies, received, replied, sampled, failures>>

\* nc.queue_subscribe(..)? fails.
SubscribeFail ==
    /\ pc = "subscribe"
    /\ pc' = "aborted"
    /\ UNCHANGED <<rtt, issued, elapsed, hist, queries, data>>
    /\ UNCHANGED argVars /\ UNCHANGED respVars

\* --------------------------------------------------- driver: request loop
Running == pc \notin {"done", "aborted", "panicked"}

\* An open loop: the next request is sent while the last is still awaited.
CanIssueOpen == pc \in {"loop", "await"} /\ issued < num_requests

\* The loop "for _ in 0..num_reqs" is at its top: the body of the previous
\* iteration, whose nc.request blocks, has run to its end.
CanIssue == pc = "loop" /\ issued < num_requests

\* let start = Instant::now(); nc.request(&svc_addr, "Hello World") publishes
\* the request with a fresh reply inbox; the server hands one copy to every
\* queue group, and the call blocks until a reply reaches the inbox.
Issue ==
    /\ CanIssue
    /\ \E f \in [Groups -> Members] :
          reqs' = reqs \cup
              {[k |-> issued + 1, sub |-> s, timer |-> Transit] :
                  s \in UNION {Route(g, f[g]) : g \in Groups}}
    /\ issued' = issued + 1
    /\ elapsed' = 0
    /\ pc' = "await"
    /\ UNCHANGED <<rtt, hist, queries, data>>
    /\ UNCHANGED argVars
    /\ UNCHANGED <<dist, subs, subq, resp, replies, received, replied, sampled, failures>>

\* An inbox that outlives the call: any reply to the last request is taken.
AcceptsAnyTime(r) == pc \in {"await", "measure", "loop", "summary"} /\ r.k = issued

\* One reply inbox for all requests: whatever reply comes while main waits
\* is taken as the reply to the request awaited.
AcceptsAnyReply(r) == pc = "await"

\* The inbox of a request exists while nc.request is blocked on it.
Accepts(r) == pc = "await" /\ r.k = issued

\* A reply reaches the client: the blocked nc.request returns it if the reply
\* is addressed to its inbox; a reply to an inbox that is gone is dropped.
ReplyArrive(r) ==
    /\ Running
    /\ r \in replies
    /\ r.timer = 0
    /\ replies' = replies \ {r}
    /\ pc' = IF Accepts(r) THEN "measure" ELSE pc
    /\ UNCHANGED <<rtt, issued, elapsed, hist, queries, data>>
    /\ UNCHANGED argVars
    /\ UNCHANGED <<dist, subs, reqs, subq, resp, received, replied, sampled, failures>>

\* The loop "for _ in 1..num_reqs": it ends one request early.
MeasureOneShort ==
    /\ pc = "measure"
    /\ hist' = Append(hist, calc_elapsed(elapsed))
    /\ pc' = IF issued >= num_requests - 1 THEN "summary" ELSE "loop"
    /\ UNCHANGED <<rtt, issued, elapsed, queries, data>>
    /\ UNCHANGED argVars /\ UNCHANGED respVars

\* HISTOGRAM.measure(calc_elapsed(start) as f64); then the next iteration,
\* or the end of the loop.
Measure ==
    /\ pc = "measure"
    /\ hist' = Append(hist, calc_elapsed(elapsed))
    /\ pc' = IF issued = num_requests THEN "summary" ELSE "loop"
    /\ UNCHANGED <<rtt, issued, elapsed, queries, data>>
    /\ UNCHANGED argVars /\ UNCHANGED respVars

\* main returns: the process ends, and with it the connection, its
\* subscriptions and the handler threads.
Exit ==
    /\ subs' = {}
    /\ reqs' = {}
    /\ replies' = {}
    /\ subq' = [s \in AllSubs |-> <<>>]
    /\ resp' = [s \in AllSubs |-> Idle]
    /\ UNCHANGED <<dist, received, replied, sampled, failures>>

\* The error of nc.request is dropped and the loop goes on.
RequestFailSkipped ==
    /\ pc = "await"
    /\ pc' = IF issued = num_requests THEN "summary" ELSE "loop"
    /\ UNCHANGED <<rtt, issued, elapsed, hist, queries, data>>
    /\ UNCHANGED argVars /\ UNCHANGED respVars

\* nc.request(..)? returns an error: main returns it.
RequestFail ==
    /\ pc = "await"
    /\ pc' = "aborted"
    /\ Exit
    /\ UNCHANGED <<rtt, issued, elapsed, hist, queries, data>>
    /\ UNCHANGED argVars

\* Gather the results: HISTOGRAM.percentile for min, 50 .. 99, max; main
\* then draws the chart and returns, which ends the process.
Summary ==
    /\ pc = "summary"
    /\ queries' = Percentiles
    /\ data' = [i \in 1 .. Len(Percentiles) |-> percentile(hist, Percentiles[i])]
    /\ pc' = "done"
    /\ Exit
    /\ UNCHANGED <<rtt, issued, elapsed, hist>>
    /\ UNCHANGED argVars

\* ------------------------------------------------------------- responders
\* A copy of a request reaches the client and is queued on its subscription.
Deliver(r) ==
    /\ Running
    /\ r \in reqs
    /\ r.timer = 0
    /\ reqs' = reqs \ {r}
    /\ subq' = [subq EXCEPT ![r.sub] = Append(@, r.k)]
    /\ UNCHANGED driverVars /\ UNCHANGED argVars
    /\ UNCHANGED <<dist, subs, resp, replies, received, replied, sampled, failures>>

\* The handler thread of subscription s takes its next message and starts
\* thread::sleep(DELAYS[DIST.sample(..)].0); the first use builds DIST.
Receive(s) ==
    /\ Running
    /\ s \in subs
    /\ resp[s].st = "idle"
    /\ subq[s] # <<>>
    /\ LET k == Head(subq[s]) IN
       \E i \in SampleIndexes :
          /\ resp' = [resp EXCEPT ![s] = [st |-> "sleep", k |-> k, timer |-> delay(i)]]
          /\ received' = [received EXCEPT ![k][s[1]] = @ \cup {s[2]}]
          /\ sampled' = [sampled EXCEPT ![k][s[1]] = @ \cup {delay(i)}]
    /\ subq' = [subq EXCEPT ![s] = Tail(@)]
    /\ dist' = "built"
    /\ UNCHANGED driverVars /\ UNCHANGED argVars
    /\ UNCHANGED <<subs, reqs, replies, replied, failures>>

\* A handler that also records its own service time in HISTOGRAM.
RespondMeasuring(s) ==
    /\ Running
    /\ resp[s].st = "sleep"
    /\ resp[s].timer = 0
    /\ replies' = replies \cup {[k |-> resp[s].k, sub |-> s, timer |-> Transit]}
    /\ replied' = [replied EXCEPT ![resp[s].k][s[1]] = @ \cup {s[2]}]
    /\ resp' = [resp EXCEPT ![s] = Idle]
    /\ hist' = Append(hist, 0)
    /\ UNCHANGED <<pc, rtt, issued, elapsed, queries, data>> /\ UNCHANGED argVars
    /\ UNCHANGED <<dist, subs, reqs, subq, received, sampled, failures>>

\* A synchronous reply: the handler proceeds only when the requester is still
\* waiting for the reply to this request.
RespondWhenAwaited(s) ==
    /\ Running
    /\ resp[s].st = "sleep"
    /\ resp[s].timer = 0
    /\ pc = "await" /\ resp[s].k = issued
    /\ replies' = replies \cup {[k |-> resp[s].k, sub |-> s, timer |-> Transit]}
    /\ replied' = [replied EXCEPT ![resp[s].k][s[1]] = @ \cup {s[2]}]
    /\ resp' = [resp EXCEPT ![s] = Idle]
    /\ UNCHANGED driverVars /\ UNCHANGED argVars
    /\ UNCHANGED <<dist, subs, reqs, subq, received, sampled, failures>>

\* A handler that serves one message: its subscription ends with the reply.
RespondOnce(s) ==
    /\ Running
    /\ resp[s].st = "sleep"
    /\ resp[s].timer = 0
    /\ replies' = replies \cup {[k |-> resp[s].k, sub |-> s, timer |-> Transit]}
    /\ replied' = [replied EXCEPT ![resp[s].k][s[1]] = @ \cup {s[2]}]
    /\ resp' = [resp EXCEPT ![s] = Idle]
    /\ subs' = subs \ {s}
    /\ UNCHANGED driverVars /\ UNCHANGED argVars
    /\ UNCHANGED <<dist, reqs, subq, received, sampled, failures>>

\* The sleep is over and msg.respond("42") publishes the reply; the handler
\* returns Ok and its thread waits for the next message.
Respond(s) ==
    /\ Running
    /\ resp[s].st = "sleep"
    /\ resp[s].timer = 0
    /\ replies' = replies \cup {[k |-> resp[s].k, sub |-> s, timer |-> Transit]}
    /\ replied' = [replied EXCEPT ![resp[s].k][s[1]] = @ \cup {s[2]}]
    /\ resp' = [resp EXCEPT ![s] = Idle]
    /\ UNCHANGED driverVars /\ UNCHANGED argVars
    /\ UNCHANGED <<dist, subs, reqs, subq, received, sampled, failures>>

\* The error of msg.respond ends the handler thread of the subscription.
RespondFailStops(s) ==
    /\ Running
    /\ resp[s].st = "sleep"
    /\ resp[s].timer = 0
    /\ failures < MaxFailures
    /\ resp' = [resp EXCEPT ![s] = Idle]
    /\ subs' = subs \ {s}
    /\ failures' = failures + 1
    /\ UNCHANGED driverVars /\ UNCHANGED argVars
    /\ UNCHANGED <<dist, reqs, subq, replies, received, replied, sampled>>

\* msg.respond("42") fails: the handler returns the error to the loop that
\* called it, which goes on to the next message.
RespondFail(s) ==
    /\ Running
    /\ resp[s].st = "sleep"
    /\ resp[s].timer = 0
    /\ failures < MaxFailures
    /\ resp' = [resp EXCEPT ![s] = Idle]
    /\ failures' = failures + 1
    /\ UNCHANGED driverVars /\ UNCHANGED argVars
    /\ UNCHANGED <<dist, subs, reqs, subq, replies, received, replied, sampled>>

\* ------------------------------------------------------------------- time
\* Something is due now: time does not pass before it has happened.  main is
\* only ever waiting inside nc.request.
Urgent ==
    \/ pc \in {"loop", "measure", "summary"}
    \/ \E r \in reqs : r.timer = 0
    \/ \E r \in replies : r.timer = 0
    \/ \E s \in subs : resp[s].st = "sleep" /\ resp[s].timer = 0
    \/ \E s \in subs : resp[s].st = "idle" /\ subq[s] # <<>>

Timers ==
    {r.timer : r \in reqs} \cup {r.timer : r \in replies}
        \cup {resp[s].timer : s \in {x \in subs : resp[x].st = "sleep"}}

\* Time passes until the next message arrives or the next sleep ends.
Tick ==
    /\ Running
    /\ ~Urgent
    /\ Timers # {}
    /\ LET d == Min(Timers) IN
          /\ reqs' = {[r EXCEPT !.timer = @ - d] : r \in reqs}
          /\ replies' = {[r EXCEPT !.timer = @ - d] : r \in replies}
          /\ resp' = [s \in AllSubs |->
                        IF resp[s].st = "sleep"
                        THEN [resp[s] EXCEPT !.timer = @ - d] ELSE resp[s]]
          /\ elapsed' = IF pc = "await" THEN elapsed + d ELSE elapsed
    /\ UNCHANGED <<pc, rtt, issued, hist, queries, data>>
    /\ UNCHANGED argVars
    /\ UNCHANGED <<dist, subs, subq, received, replied, sampled, failures>>

\* ------------------------------------------------------------------- Next
Next ==
    \/ Connect
    \/ ConnectFail
    \/ Fallback
    \/ FallbackFail
    \/ MeasureRtt
    \/ RttFail
    \/ Subscribe
    \/ SubscribeFail
    \/ Issue
    \/ \E r \in replies : ReplyArrive(r)
    \/ Measure
    \/ RequestFail
    \/ Summary
    \/ \E r \in reqs : Deliver(r)
    \/ \E s \in subs : Receive(s)
    \/ \E s \in subs : Respond(s)
    \/ \E s \in subs : RespondFail(s)
    \/ Tick

Spec == Init /\ [][Next]_vars

\* ------------------------------------------------------------ properties
\* The members of group g that request k is on its way to, or queued at.
InFlightTo(k, g) == {r.sub[2] : r \in {x \in reqs : x.k = k /\ x.sub[1] = g}}
QueuedAt(k, g) ==
    {s[2] : s \in {x \in subs : x[1] = g /\ \E i \in 1 .. Len(subq[x]) : subq[x][i] = k}}

\* C1: within one queue group, no request is received by two responders of
\* the group, and no request is replied to by two responders of the group.
C1_OneResponderPerGroup ==
    \A k \in AllReqs, g \in AllGroups :
        /\ Cardinality(received[k][g]) <= 1
        /\ Cardinality(replied[k][g]) <= 1

\* A group of two responders has handled both requests, each by one member.
C1_Witness ==
    /\ num_responders = 2
    /\ \E g \in Groups :
          /\ Cardinality(replied[1][g]) = 1
          /\ Cardinality(replied[2][g]) = 1
          /\ replied[1][g] # replied[2][g]

\* C2 (as claimed): when the run is over, every group has emitted a reply to
\* every request that was issued.
C2_EveryGroupReplied ==
    pc = "done" =>
        \A k \in 1 .. issued, g \in Groups : replied[k][g] # {}

\* C2 (amended): while the process runs, every issued request has exactly one
\* responder in every group: the copy is on its way to it, queued at it, or was
\* taken by it; and a responder that took it is sleeping on it or has emitted
\* its reply, unless a reply emission has failed.
C2_OneCopyPerGroup ==
    Running =>
        \A k \in 1 .. issued, g \in Groups :
            /\ Cardinality(InFlightTo(k, g) \cup QueuedAt(k, g) \cup received[k][g]) = 1
            /\ \A m \in received[k][g] :
                  \/ resp[<<g, m>>].st = "sleep" /\ resp[<<g, m>>].k = k
                  \/ m \in replied[k][g]
                  \/ failures > 0

\* Two groups have both replied to a request whose measurement is already made.
C2_Witness ==
    /\ Running
    /\ \E k \in 1 .. Len(hist) : \E g, h \in Groups :
          g # h /\ replied[k][g] # {} /\ replied[k][h] # {}

\* C3: every completed request has exactly one measurement; the call returns
\* on the first reply that arrives (while it waits, no reply to the request has
\* arrived yet); and a reply that is not the first changes nothing of the driver.
C3_Measurements ==
    /\ pc \in {"await", "measure"} => Len(hist) = issued - 1
    /\ pc \in {"loop", "summary", "done"} => Len(hist) = issued
    /\ pc = "await" =>
          \A g \in Groups : \A m \in replied[issued][g] :
              \E r \in replies : r.k = issued /\ r.sub = <<g, m>>

C3_LateReplyDiscarded ==
    (/\ Running'
     /\ Cardinality(replies') < Cardinality(replies)
     /\ ~(pc = "await" /\ pc' = "measure"))
        => UNCHANGED driverVars

C3_FirstReplyWins == [](C3_Measurements) /\ [][C3_LateReplyDiscarded]_vars

\* A second reply to a measured request has arrived and has been dropped.
C3_Witness ==
    /\ Running
    /\ \E k \in 1 .. Len(hist) : \E g, h \in Groups :
          /\ g # h /\ replied[k][g] # {} /\ replied[k][h] # {}
          /\ \A r \in replies : r.k # k

\* ------------------------------------------- the compensation on its own
\* One request has been answered by the only responder after a delay d of the
\* table; the call has returned after any elapsed time of at least d, with any
\* measured RTT, and the measurement is about to be made.
DelayValues == {DELAYS[i][1] : i \in 1 .. Len(DELAYS)}

CalcInit ==
    /\ num_replicas = 1
    /\ num_responders = 1
    /\ num_requests = 1
    /\ pc = "measure"
    /\ rtt \in 0 .. MaxRtt
    /\ dist = "built"
    /\ subs = {<<0, 1>>}
    /\ reqs = {}
    /\ subq = [s \in AllSubs |-> <<>>]
    /\ resp = [s \in AllSubs |-> Idle]
    /\ replies = {}
    /\ issued = 1
    /\ hist = <<>>
    /\ queries = <<>>
    /\ data = <<>>
    /\ received = [k \in AllReqs |-> [g \in AllGroups |->
                      IF k = 1 /\ g = 0 THEN {1} ELSE {}]]
    /\ replied = received
    /\ \E d \in DelayValues :
          /\ sampled = [k \in AllReqs |-> [g \in AllGroups |->
                           IF k = 1 /\ g = 0 THEN {d} ELSE {}]]
          /\ elapsed \in d .. MaxElapsed
    /\ failures = 0

CalcNext == Measure \/ Summary

CalcSpec == CalcInit /\ [][CalcNext]_vars

\* C4: the value recorded for a raw elapsed time r and a measured RTT t is
\* r - 2t when r > 2t and r otherwise (also when r = 2t); it is never negative
\* and never more than r.
C4_Compensation ==
    (pc \in {"loop", "summary"} /\ hist # <<>>) =>
        LET c == hist[Len(hist)]
            r == elapsed
            t == rtt
        IN  /\ (r > 2 * t => c = r - 2 * t)
            /\ (r <= 2 * t => c = r)
            /\ c >= 0
            /\ c <= r

\* The boundary: a raw time of exactly 2t, t > 0, has been recorded unchanged.
C4_Witness ==
    /\ pc = "summary"
    /\ rtt > 0
    /\ elapsed = 2 * rtt
    /\ hist = <<elapsed>>

\* C5: at most one request is awaiting its reply, and a request is issued
\* only from the top of the loop, after every earlier request has completed
\* and its latency has been measured.
C5_Outstanding ==
    /\ issued - Len(hist) \in {0, 1}
    /\ pc = "loop" => Len(hist) = issued

C5_IssueAfterMeasure ==
    issued' # issued =>
        /\ issued' = issued + 1
        /\ pc = "loop"
        /\ Len(hist) = issued
        /\ \A r \in reqs' \ reqs : r.k = issued'

C5_ClosedLoop == [](C5_Outstanding) /\ [][C5_IssueAfterMeasure]_vars

\* The second request is awaited and the first has been measured.
C5_Witness ==
    /\ pc = "await"
    /\ issued = 2
    /\ Len(hist) = 1

\* C6: a failed round trip ends the run: the only ways out of waiting are a
\* reply to the request and the abort; the abort records nothing, issues
\* nothing and asks no percentile; nothing happens after it; and percentiles
\* are only ever asked after all num_requests measurements.
C6_LeaveAwait ==
    (pc = "await" /\ pc' # "await") =>
        \/ /\ pc' = "measure"
           /\ \E r \in replies : r.k = issued /\ r.timer = 0 /\ replies' = replies \ {r}
        \/ /\ pc' = "aborted"
           /\ hist' = hist /\ issued' = issued /\ queries' = queries

C6_NoPartialSummary ==
    /\ pc = "aborted" => queries = <<>>
    /\ queries # <<>> => pc = "done" /\ Len(hist) = num_requests

C6_AbortOnFailure ==
    /\ [](C6_NoPartialSummary)
    /\ [][C6_LeaveAwait]_vars
    /\ [][pc # "aborted"]_vars

\* The second round trip has failed: one measurement, no summary.
C6_Witness ==
    /\ pc = "aborted"
    /\ issued = 2
    /\ Len(hist) = 1
    /\ queries = <<>>
    /\ data = <<>>

\* C7 (as claimed): a request reaches a subscription only while its handler
\* is idle, so no request waits at a subscription whose handler still has
\* part of its sleep on an earlier request ahead of it.
C7_OnlyIdleReceives ==
    \A s \in subs :
        (resp[s].st = "sleep" /\ resp[s].timer > 0) => subq[s] = <<>>

\* C8: with one replica group, the raw elapsed time of a request is the delay
\* its responder sampled plus 2 * rtt, and the value recorded for it is that
\* delay.
C8_SingleGroupLatency ==
    num_replicas = 1 =>
        /\ pc = "measure" => sampled[issued][0] = {elapsed - 2 * rtt}
        /\ \A k \in 1 .. Len(hist) : sampled[k][0] = {hist[k]}

\* Scenario C: an RTT of 10 ms and a delay of 5 ms: 25 ms raw, 5 ms recorded.
C8_Witness ==
    /\ num_replicas = 1
    /\ rtt = 10
    /\ pc \in {"loop", "summary"}
    /\ issued >= 1
    /\ hist # <<>>
    /\ sampled[issued][0] = {5}
    /\ elapsed = 25
    /\ hist[Len(hist)] = 5

\* C9: a failed reply emission changes nothing but the handler, which is idle
\* again: the driver and the subscriptions are as before and the process
\* runs on; and every subscription stays registered for as long as it runs.
C9_FailureStep ==
    failures' # failures =>
        /\ \E s \in subs : resp[s].st = "sleep" /\ resp'[s] = Idle
        /\ subs' = subs
        /\ Running'
        /\ UNCHANGED driverVars
        /\ UNCHANGED <<replies, reqs, subq>>

C9_Subscribed ==
    pc \in {"loop", "await", "measure", "summary"} => subs = Groups \X Members

C9_FailureContained == [](C9_Subscribed) /\ [][C9_FailureStep]_vars

\* The only responder of a group failed to reply to request 1 and has then
\* replied to request 2.
C9_Witness ==
    /\ Running
    /\ failures = 1
    /\ num_responders = 1
    /\ \E g \in Groups :
          received[1][g] = {1} /\ replied[1][g] = {} /\ replied[2][g] = {1}

\* C10: the histogram changes only by the driver's measurement, one value at
\* a time, in a step that touches nothing of the responders.
C10_HistogramStep ==
    hist' # hist =>
        /\ pc = "measure"
        /\ hist' = Append(hist, calc_elapsed(elapsed))
        /\ UNCHANGED respVars

C10_OnlyDriverWrites == [][C10_HistogramStep]_vars

\* Both measurements are made while a responder is still at work.
C10_Witness ==
    /\ Len(hist) = 2
    /\ \E s \in subs : resp[s].st = "sleep"

C11_BuiltByFirstUse ==
    /\ dist \in {"unbuilt", "built"}
    /\ dist = "built" <=> \E k \in AllReqs, g \in AllGroups : received[k][g] # {}
    /\ (pc \in {"connect", "fallback", "rtt", "subscribe"} \/ issued = 0)
          => dist = "unbuilt"
    /\ Len(DELAYS) = 5
    /\ SampleIndexes = 1 .. Len(DELAYS)

C11_BuildStep ==
    dist' # dist =>
        /\ dist = "unbuilt" /\ dist' = "built"
        /\ issued >= 1
        /\ \E s \in subs : resp[s].st = "idle" /\ resp'[s].st = "sleep"

C12_ConnectStep ==
    /\ pc' = "connect" => pc = "connect"
    /\ pc' = "fallback" => pc \in {"connect", "fallback"}
    /\ (pc = "fallback" /\ pc' # pc) => pc' \in {"rtt", "panicked"}
    /\ (pc' = "panicked" /\ pc' # pc) =>
          /\ pc = "fallback"
          /\ UNCHANGED <<rtt, issued, elapsed, hist, queries, data>>
          /\ UNCHANGED respVars

C12_BeforeRtt ==
    pc \in {"connect", "fallback", "panicked"} =>
        /\ rtt = 0
        /\ subs = {}
        /\ reqs = {}
        /\ issued = 0
        /\ hist = <<>>

C12_FallbackOnce ==
    /\ [](C12_BeforeRtt)
    /\ [][C12_ConnectStep]_vars
    /\ [][pc # "panicked"]_vars

\* Both connects have failed.
C12_Witness ==
    /\ pc = "panicked"
    /\ subs = {}
    /\ issued = 0

\* C13 (as claimed): the summary min, p50, p75, p90, p95, p99, max of a
\* finished run is non-decreasing, and when exactly one value was measured
\* every entry of the summary is that value.
C13_SummaryOfSamples ==
    pc = "done" =>
        /\ \A i \in 1 .. (Len(data) - 1) : data[i] <= data[i + 1]
        /\ Len(hist) = 1 => \A i \in 1 .. Len(data) : data[i] = hist[1]

\* C15: a run that gets to its summary has recorded exactly num_requests
\* values, the i-th of them when request i was the last one issued; the
\* percentiles are asked in one step, after the value of the last request has
\* been recorded, and the histogram is not written from then on.
C15_AllRecorded ==
    /\ pc \in {"summary", "done"} => Len(hist) = num_requests /\ issued = num_requests
    /\ Len(queries) \in {0, Len(Percentiles)}
    /\ Len(data) = Len(queries)

C15_RecordStep ==
    hist' # hist =>
        /\ Len(hist') = Len(hist) + 1
        /\ SubSeq(hist', 1, Len(hist)) = hist
        /\ Len(hist') = issued
        /\ queries = <<>> /\ queries' = <<>>

C15_QueryStep ==
    queries' # queries =>
        /\ queries = <<>>
        /\ Len(hist) = num_requests
        /\ hist' = hist

C15_MeasureThenRead ==
    /\ [](C15_AllRecorded)
    /\ [][C15_RecordStep /\ C15_QueryStep]_vars
    /\ [][queries # <<>> => hist' = hist]_vars

\* Three requests, none failed: three values, then the summary.
C15_Witness ==
    /\ pc = "done"
    /\ failures = 0
    /\ num_requests = 3
    /\ Len(hist) = 3
    /\ queries = Percentiles

\* C16: a draw gives an index of the table, and every delay a responder
\* sleeps is the delay of an entry: one of 5, 10, 15, 50 and 100 ms.
C16_DelayOfTable ==
    /\ SampleIndexes # {}
    /\ SampleIndexes \subseteq 1 .. Len(DELAYS)
    /\ \A k \in AllReqs, g \in AllGroups : sampled[k][g] \subseteq {5, 10, 15, 50, 100}
    /\ \A s \in subs :
          resp[s].st = "sleep" =>
              \E d \in sampled[resp[s].k][s[1]] :
                  d \in {5, 10, 15, 50, 100} /\ resp[s].timer \in 0 .. d

\* The last entry of the table has been drawn and slept out.
C16_Witness ==
    \E k \in AllReqs, g \in Groups :
        sampled[k][g] = {100} /\ replied[k][g] # {}

\* ------------------------------------------------------------- fair runs
\* The threads of the process are scheduled and the connection delivers: main
\* takes its next step when it is not blocked, a handler thread with a message
\* or at the end of its sleep runs, a message in transit arrives, and time
\* passes.  Nothing is assumed about the steps that are failures.
DriverStep ==
    Connect \/ Fallback \/ MeasureRtt \/ Subscribe \/ Issue \/ Measure \/ Summary

TransportStep ==
    \/ \E r \in reqs : Deliver(r)
    \/ \E r \in replies : ReplyArrive(r)

HandlerStep(s) == Receive(s) \/ Respond(s)

Fairness ==
    /\ WF_vars(DriverStep)
    /\ WF_vars(TransportStep)
    /\ \A s \in AllSubs : WF_vars(HandlerStep(s))
    /\ WF_vars(Tick)

FairSpec == Spec /\ Fairness

\* C17 (as claimed): every responder that has picked up a request becomes
\* idle again: none is still in its sleep when the run ends.
C17_IdleBeforeExit ==
    [][(Running /\ ~Running') => \A s \in subs : resp[s].st = "idle"]_vars

\* C17 (amended): a responder that has picked up a request becomes idle again
\* or the process ends first, and a reply in transit, accepted or not, reaches
\* the client and is gone or the process ends first: every fair run comes to
\* a point from which on the process is over, or all its responders are idle
\* and no reply is in transit.
C17_ResponderReturns ==
    <>[](\/ ~Running
         \/ /\ \A s \in subs : resp[s].st = "idle"
            /\ replies = {})

\* A responder is idle again after its reply to request 1 arrived too late.
C17_Witness ==
    /\ Running
    /\ issued = 2
    /\ \E s \in subs :
          /\ resp[s].st = "idle"
          /\ s[2] \in replied[1][s[1]]
          /\ \A r \in replies : r.sub # s
          /\ \E t \in subs : t[1] # s[1] /\ t[2] \in replied[1][t[1]] /\ hist # <<>>

\* C18: the reply that ends the wait for request k was emitted, for request
\* k, by a responder that took request k; every reply in transit is the reply
\* of the responder that emitted it to the request it took; and a reply to an
\* earlier request that reaches the client changes nothing of the driver: it
\* neither ends the wait nor touches the time being measured.
Arrived == {<<r.k, r.sub>> : r \in replies} \ {<<r.k, r.sub>> : r \in replies'}

C18_RepliesToOwnRequest ==
    /\ \A r \in replies :
          /\ r.k \in 1 .. issued
          /\ r.sub[2] \in replied[r.k][r.sub[1]]
          /\ r.sub[2] \in received[r.k][r.sub[1]]
    /\ pc = "measure" => \E g \in Groups : replied[issued][g] # {}

C18_AcceptStep ==
    (pc = "await" /\ pc' = "measure") =>
        \E a \in Arrived :
            /\ a[1] = issued
            /\ a[2][2] \in replied[issued][a[2][1]]

C18_LateStep ==
    (Running' /\ \E a \in Arrived : a[1] # issued) =>
        /\ Cardinality(Arrived) = 1
        /\ UNCHANGED driverVars

C18_ReplyMatchesRequest ==
    /\ [](C18_RepliesToOwnRequest)
    /\ [][C18_AcceptStep /\ C18_LateStep]_vars

\* While main waits for the reply to request 2, the reply of another group to
\* request 1 is arriving.
C18_Witness ==
    /\ pc = "await"
    /\ issued = 2
    /\ elapsed > 0
    /\ \E r \in replies : r.k = 1 /\ r.timer = 0
    /\ \A g \in Groups : replied[2][g] = {}

\* C19 (as claimed): when the reply to a request has come, no reply emission
\* has failed and the responders of all groups have drawn their delays for the
\* request, the raw elapsed time of the request is 2 * rtt plus the smallest
\* of these delays.
C19_FastestGroupWins ==
    (/\ pc = "measure"
     /\ failures = 0
     /\ \A g \in Groups : sampled[issued][g] # {})
        => elapsed = 2 * rtt + Min(UNION {sampled[issued][g] : g \in Groups})

\* C20: in a fair run in which nothing fails (no connect after the fallback,
\* no RTT measurement, no registration, no round trip and no reply emission),
\* main comes to the end of its summary with all num_requests round trips
\* made and measured.
NothingFails == failures = 0 /\ pc \notin {"aborted", "panicked"}

C20_Terminates ==
    [](NothingFails) =>
        <>(pc = "done" /\ issued = num_requests /\ Len(hist) = num_requests)

\* The last round trip is complete while the responder of a slower group is
\* still at work on the first request.
C20_Witness ==
    /\ pc = "summary"
    /\ failures = 0
    /\ issued = 2
    /\ Len(hist) = 2
    /\ \E s \in subs : resp[s].st = "sleep" /\ resp[s].k = 1 /\ resp[s].timer > 0

====
